---- MODULE Spec2Model ----
(***************************************************************************)
(* A state-machine model of the pseudo-random generators (prng.py) and the *)
(* probable-prime search (prime.py).                                       *)
(*                                                                         *)
(* One behaviour is one call of one entry point, chosen in Init:           *)
(*   prog = "gen"   generate_and_save(algorithm, seed, bits, iterations)   *)
(*   prog = "find"  find_prime(algorithm, bits)   (seed = int(time.time()))*)
(*   prog = "test"  fermat_test(n, k) / miller_rabin_test(n, k)            *)
(*                                                                         *)
(* Python integers are unbounded; the model checker's are 32 bit.  Products*)
(* and left shifts are therefore computed by MulMod and ShlAnd, which give *)
(* the exact value of (x*y) % m and (x << s) & m without ever forming the  *)
(* wide intermediate value.                                                *)
(***************************************************************************)
EXTENDS Integers, Sequences, FiniteSets, TLC

\* ------------------------------------------------------------------ bounds
\* generator widths explored: -1 .. MaxBits
MaxBits == 20
\* generator seeds explored: -MaxSeed .. MaxSeed
MaxSeed == 42
\* find_prime's time-derived seed: 0 .. MaxFindSeed
MaxFindSeed == 20
\* iterations argument of generate_and_save: 0 .. MaxIterations
MaxIterations == 2
\* widths of find_prime: 1 .. MaxFindBits
MaxFindBits == 8
\* find_prime has no attempt limit; the model stops pulling after this many
MaxAttempts == 6
\* k of a directly called tester: 1 .. MaxK
MaxK == 2
\* random bases are drawn from lo .. Min(n-1, MaxBase)
MaxBase == 600

\* ------------------------------------------------------- program constants
\* default multiplier and increment of lcg_numpy
LCG_A == 1103515245
LCG_C == 12345

GenAlgorithms == {"lcg", "xorshift"}
Testers == {"fermat", "miller_rabin"}
\* a name that is neither a generator nor a tester
Unknown == "other"

\* the numbers the testers are called on directly
TestNumbers == {2, 3, 5, 7, 11, 104729, 4, 6, 9, 15, 100, 561}

\* ------------------------------------------------- big-integer arithmetic
Min(x, y) == IF x <= y THEN x ELSE y

\* 1 << n  (n >= 0; Python raises ValueError for a negative shift count)
Shl1(n) == 2 ^ n

\* the operations that raise "ValueError: negative shift count"
NegativeShift(n) == n < 0

\* x & y for y >= 0; x may be negative (Python's infinite two's complement)
RECURSIVE BitAnd(_, _)
BitAnd(x, y) ==
    IF y = 0 THEN 0
    ELSE (IF x % 2 = 1 /\ y % 2 = 1 THEN 1 ELSE 0)
         + 2 * BitAnd(x \div 2, y \div 2)

\* x | y for x, y >= 0
RECURSIVE BitOr(_, _)
BitOr(x, y) ==
    IF x = 0 THEN y
    ELSE IF y = 0 THEN x
    ELSE (IF x % 2 = 1 \/ y % 2 = 1 THEN 1 ELSE 0)
         + 2 * BitOr(x \div 2, y \div 2)

\* x ^ y for x, y >= 0
RECURSIVE BitXor(_, _)
BitXor(x, y) ==
    IF x = 0 THEN y
    ELSE IF y = 0 THEN x
    ELSE (IF (x % 2) # (y % 2) THEN 1 ELSE 0)
         + 2 * BitXor(x \div 2, y \div 2)

\* (x << s) & m, bit by bit: the low s bits of x << s are zero
RECURSIVE ShlAnd(_, _, _)
ShlAnd(x, s, m) ==
    IF m = 0 THEN 0
    ELSE IF s = 0 THEN BitAnd(x, m)
    ELSE 2 * ShlAnd(x, s - 1, m \div 2)

\* (x >> s) & m
ShrAnd(x, s, m) == BitAnd(x \div (2 ^ s), m)

\* (x * y) % m for 1 <= m < 2^22 and 0 <= x, y < m, eight bits of y at a
\* time; no intermediate value reaches 2^31
RECURSIVE MulModR(_, _, _)
MulModR(x, y, m) ==
    IF y = 0 THEN 0
    ELSE (MulModR(x, y \div 256, m) * 256 + x * (y % 256)) % m

MulMod(x, y, m) == MulModR(x % m, y % m, m)

\* pow(b, e, n): modular exponentiation, e >= 0, n >= 1
RECURSIVE pow(_, _, _)
pow(b, e, n) ==
    IF e = 0 THEN 1 % n
    ELSE LET h == pow(b, e \div 2, n)
             q == MulMod(h, h, n)
         IN IF e % 2 = 1 THEN MulMod(q, b, n) ELSE q

\* ------------------------------------------------------------- generators
VARIABLES
    prog,        \* the entry point this behaviour runs
    algorithm,   \* its algorithm argument
    seed,        \* the generator's seed
    bits,        \* the bit width argument
    iterations,  \* generate_and_save's iterations argument
    g,           \* the generator object: pc, state, count of yields, last yield
    gs_pc,       \* generate_and_save: "call", "batch", "done", "raised", "off"
    gs_file,     \* generate_and_save: the output file was opened (created)
    fp_pc,       \* find_prime: "loop", "test", "done", "off"
    attempts,    \* find_prime's attempts counter
    num,         \* find_prime's current candidate
    hist,        \* find_prime: the candidates tested so far, with verdicts
    tests,       \* find_prime: number of tester calls made
    logged,      \* the arguments log_prime was called with
    t            \* the running tester call: pc, algorithm, n, k, d, s, i, result

vars == <<prog, algorithm, seed, bits, iterations, g, gs_pc, gs_file,
          fp_pc, attempts, num, hist, tests, logged, t>>

\* a generator object whose body has not started running
NewGen == [pc |-> "new", state |-> 0, count |-> 0, out |-> 0]

\* (1 << bits) - 1
Mask(w) == Shl1(w) - 1

\* a prologue that validates its parameters and raises instead of reducing
LcgStartStrict(gen, sd, w) ==
    IF w <= 0 THEN [gen EXCEPT !.pc = "err"]
    ELSE IF sd < 0 \/ sd >= Shl1(w) THEN [gen EXCEPT !.pc = "err"]
    ELSE [gen EXCEPT !.pc = "loop", !.state = sd]

\* lcg_numpy, lines 24-25: modulus and the reduced seed
LcgStart(gen, sd, w) ==
    IF NegativeShift(w) THEN [gen EXCEPT !.pc = "err"]
    ELSE [gen EXCEPT !.pc = "loop", !.state = sd % Shl1(w)]

\* line 28 with the increment left out
LcgStepNoIncrement(state, w) == MulMod(LCG_A, state, Shl1(w)) % Shl1(w)

\* lcg_numpy, line 28: state = (a * state + c) % modulus
LcgStep(state, w) == (MulMod(LCG_A, state, Shl1(w)) + LCG_C) % Shl1(w)

\* lcg_numpy, lines 27-29: one turn of the loop, up to the yield
LcgYield(gen, w) ==
    LET s2 == LcgStep(gen.state, w)
    IN [gen EXCEPT !.state = s2, !.out = s2, !.count = gen.count + 1]

\* next(gen) on an lcg_numpy generator: the first call runs the prologue too
lcg_next(gen, sd, w) ==
    LET started == IF gen.pc = "new" THEN LcgStart(gen, sd, w) ELSE gen
    IN IF started.pc = "err" THEN started ELSE LcgYield(started, w)

choose_xorshift_parameters(w) ==
    IF w <= 32 THEN <<13, 17, 5>>
    ELSE IF w <= 64 THEN <<13, 7, 17>>
    ELSE IF w <= 96 THEN <<10, 5, 26>>
    ELSE IF w <= 128 THEN <<5, 14, 1>>
    ELSE <<w \div 3, w \div 2, w \div 5>>

\* xorshift_numpy, lines 67-69
XorStart(gen, sd, w) ==
    IF NegativeShift(w) THEN [gen EXCEPT !.pc = "err"]
    ELSE [gen EXCEPT !.pc = "loop", !.state = BitAnd(sd, Mask(w))]

\* line 73 with the mask one bit too wide
XorLine73Wide(state, w) ==
    BitXor(state, ShlAnd(state, choose_xorshift_parameters(w)[1], Mask(w + 1)))

\* xorshift_numpy, line 73: state ^= (state << shift1) & mask
XorLine73(state, w) ==
    BitXor(state, ShlAnd(state, choose_xorshift_parameters(w)[1], Mask(w)))

\* line 74 with = in place of ^=
XorLine74Assign(state, w) ==
    ShrAnd(state, choose_xorshift_parameters(w)[2], Mask(w))

\* xorshift_numpy, line 74: state ^= (state >> shift2) & mask
XorLine74(state, w) ==
    BitXor(state, ShrAnd(state, choose_xorshift_parameters(w)[2], Mask(w)))

\* xorshift_numpy, line 75: state ^= (state << shift3) & mask
XorLine75(state, w) ==
    BitXor(state, ShlAnd(state, choose_xorshift_parameters(w)[3], Mask(w)))

\* ----------------------------------------------------------------- testers
\* a tester that is not running
IdleTest == [pc |-> "idle", alg |-> "none", n |-> 0, k |-> 0,
             d |-> 0, s |-> 0, i |-> 0, result |-> FALSE]

\* the call itself: the arguments are bound, the body has not run
CallTest(alg, n, k) == [IdleTest EXCEPT !.pc = "call", !.alg = alg, !.n = n, !.k = k]

Return(tc, verdict) == [tc EXCEPT !.pc = "ret", !.result = verdict]

\* miller_rabin_test, lines 34-38: n - 1 = 2^s * d with d odd
RECURSIVE Factor(_, _)
Factor(d, s) == IF d % 2 = 0 THEN Factor(d \div 2, s + 1) ELSE <<d, s>>

\* fermat_test, lines 10-13
FermatEnter(tc) ==
    IF tc.n <= 1 THEN Return(tc, FALSE)
    ELSE IF tc.n <= 3 THEN Return(tc, TRUE)
    ELSE [tc EXCEPT !.pc = "loop"]

\* miller_rabin_test, lines 25-38
MillerRabinEnter(tc) ==
    IF tc.n <= 1 THEN Return(tc, FALSE)
    ELSE IF tc.n <= 3 THEN Return(tc, TRUE)
    ELSE IF tc.n % 2 = 0 THEN Return(tc, FALSE)
    ELSE LET ds == Factor(tc.n - 1, 0)
         IN [tc EXCEPT !.pc = "loop", !.d = ds[1], !.s = ds[2]]

\* fermat_test, line 16: the trial with base a passes
FermatTrialPasses(a, n) == pow(a, n - 1, n) = 1

\* the inner loop over range(s) in place of range(s - 1)
MillerRabinInnerOffByOne(x, i, d, s, n) ==
    IF i >= s THEN TRUE
    ELSE pow(x, (2 ^ i) * d, n) = (-1) % n

\* miller_rabin_test, lines 48-55: for i in range(s - 1), entered with i = 0.
\* The else belongs to the if, not to the for: the first turn of the loop
\* either breaks (the trial passes) or returns False, so i never advances.
MillerRabinInner(x, i, d, s, n) ==
    IF i >= s - 1 THEN TRUE
    ELSE pow(x, (2 ^ i) * d, n) = (-1) % n

\* miller_rabin_test, lines 44-55: the trial with base a passes
MillerRabinTrialPasses(a, d, s, n) ==
    LET x == pow(a, d, n)
    IN IF x = 1 THEN TRUE ELSE MillerRabinInner(x, 0, d, s, n)

\* random.randint(lo, n - 1), capped by MaxBase
Bases(lo, n) == lo .. Min(n - 1, MaxBase)

\* find_prime, lines 74 and 85: k = bits // 4
TrialCount(w) == w \div 4

\* 1 << bits in place of 1 << (bits - 1)
ForceTopBitOneTooHigh(x, w) == BitOr(x, Shl1(w))

\* find_prime, line 68: int(next(gen)) | (1 << (bits - 1))
ForceTopBit(x, w) == BitOr(x, Shl1(w - 1))

\* accepting whatever the verdict is
AcceptsAlways(verdict) == TRUE

\* find_prime, lines 77 and 88: if <tester>_result:
Accepts(verdict) == verdict

\* ------------------------------------------------------------------- Init
InitGen ==
    /\ prog = "gen"
    /\ algorithm \in GenAlgorithms \cup {Unknown}
    /\ seed \in (-MaxSeed) .. MaxSeed
    /\ bits \in (-1) .. MaxBits
    /\ iterations \in 0 .. MaxIterations
    /\ gs_pc = "call"
    /\ fp_pc = "off"
    /\ t = IdleTest

InitFind ==
    /\ prog = "find"
    /\ algorithm \in Testers \cup {Unknown}
    /\ seed \in 0 .. MaxFindSeed
    /\ bits \in 1 .. MaxFindBits
    /\ iterations = 0
    /\ gs_pc = "off"
    /\ fp_pc = "loop"
    /\ t = IdleTest

InitTest ==
    /\ prog = "test"
    /\ algorithm \in Testers
    /\ seed = 0
    /\ bits = 0
    /\ iterations = 0
    /\ gs_pc = "off"
    /\ fp_pc = "off"
    /\ \E n \in TestNumbers, k \in 1 .. MaxK : t = CallTest(algorithm, n, k)

InitRest ==
    /\ g = NewGen
    /\ gs_file = FALSE
    /\ attempts = 0
    /\ num = 0
    /\ hist = <<>>
    /\ tests = 0
    /\ logged = [called |-> FALSE, num |-> 0, attempts |-> 0]

Init == (InitGen \/ InitFind \/ InitTest) /\ InitRest

\* ------------------------------------------------------ generate_and_save
unchangedArgs == UNCHANGED <<prog, algorithm, seed, bits, iterations>>
unchangedFind == UNCHANGED <<fp_pc, attempts, num, hist, tests, logged>>

\* lines 80-95: pick the generator, or raise ValueError; open the output file
GsDispatch ==
    /\ gs_pc = "call"
    /\ IF algorithm \in GenAlgorithms
       THEN gs_pc' = "batch" /\ gs_file' = TRUE
       ELSE gs_pc' = "raised" /\ gs_file' = FALSE
    /\ UNCHANGED <<g, t>>
    /\ unchangedArgs /\ unchangedFind

\* the first next(gen): the generator's prologue (lines 24-25, 67-69)
GenStart ==
    /\ gs_pc = "batch"
    /\ g.pc = "new"
    /\ g.count < iterations
    /\ g' = IF algorithm = "lcg" THEN LcgStart(g, seed, bits)
                                 ELSE XorStart(g, seed, bits)
    /\ gs_pc' = IF g'.pc = "err" THEN "raised" ELSE gs_pc
    /\ UNCHANGED <<gs_file, t>>
    /\ unchangedArgs /\ unchangedFind

\* next(gen) on the lcg generator, lines 27-29
LcgNext ==
    /\ gs_pc = "batch"
    /\ algorithm = "lcg"
    /\ g.pc = "loop"
    /\ g.count < iterations
    /\ g' = LcgYield(g, bits)
    /\ UNCHANGED <<gs_pc, gs_file, t>>
    /\ unchangedArgs /\ unchangedFind

\* next(gen) on the xorshift generator, line 73
XorShift1 ==
    /\ gs_pc = "batch"
    /\ algorithm = "xorshift"
    /\ g.pc = "loop"
    /\ g.count < iterations
    /\ g' = [g EXCEPT !.pc = "x1", !.state = XorLine73(g.state, bits)]
    /\ UNCHANGED <<gs_pc, gs_file, t>>
    /\ unchangedArgs /\ unchangedFind

\* line 74
XorShift2 ==
    /\ g.pc = "x1"
    /\ g' = [g EXCEPT !.pc = "x2", !.state = XorLine74(g.state, bits)]
    /\ UNCHANGED <<gs_pc, gs_file, t>>
    /\ unchangedArgs /\ unchangedFind

\* lines 75-76: the third shift and the yield
XorShift3 ==
    /\ g.pc = "x2"
    /\ LET s3 == XorLine75(g.state, bits)
       IN g' = [g EXCEPT !.pc = "loop", !.state = s3, !.out = s3,
                         !.count = g.count + 1]
    /\ UNCHANGED <<gs_pc, gs_file, t>>
    /\ unchangedArgs /\ unchangedFind

\* lines 111-121: all values produced, the time file is written
GsFinish ==
    /\ gs_pc = "batch"
    /\ g.pc \in {"new", "loop"}
    /\ g.count = iterations
    /\ gs_pc' = "done"
    /\ UNCHANGED <<g, gs_file, t>>
    /\ unchangedArgs /\ unchangedFind

\* ---------------------------------------------------------------- testers
\* the base cases of the tester called (lines 9-13, 22-38)
TestEnter ==
    /\ t.pc = "call"
    /\ t' = IF t.alg = "fermat" THEN FermatEnter(t) ELSE MillerRabinEnter(t)
    /\ UNCHANGED <<g, gs_pc, gs_file>>
    /\ unchangedArgs /\ unchangedFind

\* one turn of the for _ in range(k) loop, or its end (lines 14-18, 41-58)
TestTrial ==
    /\ t.pc = "loop"
    /\ IF t.i >= t.k
       THEN t' = Return(t, TRUE)
       ELSE \E a \in Bases(IF t.alg = "fermat" THEN 2 ELSE 1, t.n) :
              LET passes == IF t.alg = "fermat"
                            THEN FermatTrialPasses(a, t.n)
                            ELSE MillerRabinTrialPasses(a, t.d, t.s, t.n)
              IN t' = IF passes THEN [t EXCEPT !.i = t.i + 1]
                                ELSE Return(t, FALSE)
    /\ UNCHANGED <<g, gs_pc, gs_file>>
    /\ unchangedArgs /\ unchangedFind

\* -------------------------------------------------------------- find_prime
\* lines 68-74 / 82-85: pull a candidate, count it, call the selected tester;
\* with any other algorithm name neither branch is taken and the loop repeats
FpPull ==
    /\ fp_pc = "loop"
    /\ attempts < MaxAttempts
    /\ g' = lcg_next(g, seed, bits)
    /\ num' = ForceTopBit(g'.out, bits)
    /\ attempts' = attempts + 1
    /\ IF algorithm \in Testers
       THEN /\ t' = CallTest(algorithm, num', TrialCount(bits))
            /\ tests' = tests + 1
            /\ fp_pc' = "test"
       ELSE /\ t' = t
            /\ tests' = tests
            /\ fp_pc' = "loop"
    /\ UNCHANGED <<gs_pc, gs_file, hist, logged>>
    /\ unchangedArgs

\* lines 77-80 / 88-91: branch on the verdict; log_prime and break, or loop
FpBranch ==
    /\ fp_pc = "test"
    /\ t.pc = "ret"
    /\ hist' = Append(hist, [raw |-> g.out, num |-> num, verdict |-> t.result])
    /\ IF Accepts(t.result)
       THEN /\ logged' = [called |-> TRUE, num |-> num, attempts |-> attempts]
            /\ fp_pc' = "done"
       ELSE /\ logged' = logged
            /\ fp_pc' = "loop"
    /\ t' = IdleTest
    /\ UNCHANGED <<g, gs_pc, gs_file, attempts, num, tests>>
    /\ unchangedArgs

Next ==
    \/ GsDispatch
    \/ GenStart
    \/ LcgNext
    \/ XorShift1
    \/ XorShift2
    \/ XorShift3
    \/ GsFinish
    \/ TestEnter
    \/ TestTrial
    \/ FpPull
    \/ FpBranch

Spec == Init /\ [][Next]_vars

\* find_prime("miller_rabin", bits) alone.  The program is sequential and
\* keeps running while it has a step to take: weak fairness of its steps.
NextFind ==
    \/ FpPull
    \/ TestEnter
    \/ TestTrial
    \/ FpBranch

InitMillerRabinSearch == InitFind /\ algorithm = "miller_rabin" /\ InitRest

MillerRabinSearchSpec ==
    InitMillerRabinSearch /\ [][NextFind]_vars /\ WF_vars(NextFind)

\* ================================================================== claims
\* the i-fold application of x -> (a*x + c) mod 2^w, written from the
\* recurrence itself
RECURSIVE LcgIter(_, _, _)
LcgIter(x, i, w) ==
    IF i = 0 THEN x
    ELSE LcgIter((MulMod(LCG_A, x, 2 ^ w) + LCG_C) % (2 ^ w), i - 1, w)

\* x with bit w-1 set, by arithmetic
TopForced(x, w) == IF x < 2 ^ (w - 1) THEN x + 2 ^ (w - 1) ELSE x

\* the generator behind this behaviour is the lcg / the xorshift generator
RunsLcg == (prog = "gen" /\ algorithm = "lcg") \/ prog = "find"
RunsXorshift == prog = "gen" /\ algorithm = "xorshift"
GenRunning == g.pc \in {"loop", "x1", "x2"}

\* C1: miller_rabin_test(n, k) with k >= 1 returns True for every n in
\* {2, 3, 5, 7, 11, 104729}, whatever bases are drawn.
C1_MillerRabinAcceptsPrimes ==
    (t.pc = "ret" /\ t.alg = "miller_rabin" /\ t.k >= 1
        /\ t.n \in {2, 3, 5, 7, 11, 104729})
    => t.result = TRUE

\* C2: miller_rabin_test(n, k) with k >= 1 returns False for every n in
\* {4, 6, 9, 15, 100, 561}, whatever bases are drawn.
C2_MillerRabinRejectsComposites ==
    (t.pc = "ret" /\ t.alg = "miller_rabin" /\ t.k >= 1
        /\ t.n \in {4, 6, 9, 15, 100, 561})
    => t.result = FALSE

\* C3: for every seed (also outside [0, 2^W)) and every W >= 1 the state of
\* either generator is in [0, 2^W) at every step, the three intermediate
\* xorshift steps included, and so is every value yielded.
C3_GeneratorRange ==
    (GenRunning /\ bits >= 1)
    => /\ 0 <= g.state /\ g.state < 2 ^ bits
       /\ g.count > 0 => (0 <= g.out /\ g.out < 2 ^ bits)

\* an xorshift generator with an out-of-range seed, between the second and
\* the third shift of its second step
C3_Witness ==
    /\ RunsXorshift /\ g.pc = "x2" /\ g.count = 1
    /\ bits >= 14
    /\ (seed < 0 \/ seed >= 2 ^ bits)

\* C4: whenever find_prime calls log_prime, the number logged has bit length
\* exactly W and the attempts logged are >= 1.
C4_AcceptedBitLength ==
    logged.called
    => /\ 2 ^ (bits - 1) <= logged.num /\ logged.num < 2 ^ bits
       /\ logged.attempts >= 1

\* an accepted candidate whose raw generator output lacked the top bit
C4_Witness ==
    /\ logged.called /\ logged.attempts >= 2
    /\ g.out < 2 ^ (bits - 1)
    /\ bits >= 4

\* C5: the i-th value yielded by lcg_numpy(seed, W) is the i-fold application
\* of state -> (a*state + c) mod 2^W to seed mod 2^W (so the sequence is a
\* function of seed, W, a, c alone); seed 42 at W = 8 yields 27 first.
C5_LcgDeterministic ==
    (RunsLcg /\ g.pc = "loop")
    => /\ g.state = LcgIter(seed % (2 ^ bits), g.count, bits)
       /\ g.count > 0 => g.out = g.state
       /\ (seed = 42 /\ bits = 8 /\ g.count = 1) => g.out = 27

\* the example vector: seed 42, W = 8, first value
C5_Witness ==
    /\ prog = "gen" /\ algorithm = "lcg"
    /\ seed = 42 /\ bits = 8 /\ g.count = 1 /\ g.out = 27

\* C6 as stated: with W <= 0 or a seed outside [0, 2^W) the generator signals
\* an error; it never reduces the seed and never yields a value.
C6_InvalidParameterRejected ==
    (prog = "gen" /\ algorithm \in GenAlgorithms
        /\ (bits <= 0 \/ seed < 0 \/ seed >= 2 ^ bits))
    => (g.pc \in {"new", "err"} /\ g.count = 0)

\* C6 amended: only a negative width makes a generator raise (at its first
\* step, before any value); for W >= 0 no error is signalled, the seed is
\* reduced to seed mod 2^W and values are yielded from it; W = 0 yields 0.
C6_SeedSilentlyReduced ==
    (prog = "gen" /\ algorithm \in GenAlgorithms)
    => /\ g.pc = "err" => (bits < 0 /\ g.count = 0 /\ gs_pc = "raised")
       /\ bits < 0 => (g.pc \in {"new", "err"} /\ g.count = 0)
       /\ (bits >= 0 /\ iterations > 0 /\ gs_pc = "done") => g.count = iterations
       /\ (g.pc = "loop" /\ g.count = 0) => g.state = seed % (2 ^ bits)
       /\ (bits = 0 /\ g.count > 0) => g.out = 0

\* a run that finished after yielding values from a seed that is too large
C6_Witness ==
    /\ prog = "gen" /\ algorithm \in GenAlgorithms
    /\ bits >= 1 /\ seed >= 2 ^ bits
    /\ gs_pc = "done" /\ g.count = 2

\* C7: an unknown algorithm name ends in an error with no fallback:
\* generate_and_save raises before any value or file, and find_prime does
\* not pull candidates without testing them.
C7_UnknownVariantErrors ==
    /\ (prog = "gen" /\ algorithm \notin GenAlgorithms)
       => (gs_pc \in {"call", "raised"} /\ ~gs_file /\ g.count = 0)
    /\ (prog = "find" /\ algorithm \notin Testers)
       => attempts = 0

\* C8: xorshift_numpy yields 0 at every step when seed = 0, and for W >= 1 a
\* yielded value is 0 if and only if seed mod 2^W = 0.
C8_XorshiftZeroIffZeroSeed ==
    (RunsXorshift /\ g.pc = "loop" /\ g.count > 0)
    => /\ seed = 0 => g.out = 0
       /\ bits >= 1 => (g.out = 0 <=> seed % (2 ^ bits) = 0)

\* a wide generator (all three shifts act) on its second value, non-zero
C8_Witness ==
    /\ RunsXorshift /\ g.pc = "loop" /\ g.count = 2
    /\ bits >= 18 /\ seed < 0
    /\ g.out # 0

\* C9: find_prime alternates generating and testing: one LCG value, top bit
\* forced, attempts + 1 and one tester call with k = W // 4 per iteration;
\* when it accepts, the number logged is the attempts-th generator output
\* with the top bit forced, its verdict was True and every earlier candidate
\* had verdict False.
C9_SearchAlternates ==
    (prog = "find" /\ algorithm \in Testers)
    => /\ g.count = attempts
       /\ tests = attempts
       /\ fp_pc = "loop" => (Len(hist) = attempts /\ t.pc = "idle")
       /\ fp_pc = "test" => /\ Len(hist) = attempts - 1
                            /\ t.pc # "idle"
                            /\ t.alg = algorithm
                            /\ t.n = num
                            /\ t.k = bits \div 4
       /\ attempts > 0 =>
            /\ g.out = LcgIter(seed % (2 ^ bits), attempts, bits)
            /\ num = TopForced(g.out, bits)
       /\ \A j \in 1 .. Len(hist) :
            hist[j].num = TopForced(LcgIter(seed % (2 ^ bits), j, bits), bits)
       /\ fp_pc = "done" => /\ logged.called
                            /\ Len(hist) = attempts
                            /\ logged.attempts = attempts
                            /\ logged.num = hist[attempts].num
                            /\ hist[attempts].verdict
                            /\ \A j \in 1 .. (attempts - 1) : ~hist[j].verdict
       /\ fp_pc # "done" => /\ ~logged.called
                            /\ \A j \in 1 .. Len(hist) : ~hist[j].verdict

\* a Miller-Rabin search that accepted its third candidate, with k >= 1
C9_Witness ==
    /\ prog = "find" /\ algorithm = "miller_rabin"
    /\ fp_pc = "done" /\ attempts = 3 /\ bits >= 4

\* C10: find_prime("miller_rabin", W) terminates for every seed and W >= 2
\* with attempts <= 4: the LCG state advances by 1 modulo 4 per step, and
\* miller_rabin_test returns True for every odd n > 3 with n mod 4 = 3.
MillerRabinSearch == prog = "find" /\ algorithm = "miller_rabin" /\ bits >= 2

C10_MillerRabinSearchTerminates ==
    /\ [](MillerRabinSearch =>
            /\ attempts <= 4
            /\ g.count > 0 => g.state % 4 = (seed + g.count) % 4)
    /\ []((t.pc = "ret" /\ t.alg = "miller_rabin" /\ t.n > 3 /\ t.n % 4 = 3)
            => t.result = TRUE)
    /\ (MillerRabinSearch ~> (fp_pc = "done" /\ attempts <= 4))

\* a search that needed all four pulls
C10_Witness ==
    /\ MillerRabinSearch /\ fp_pc = "done" /\ attempts = 4
    /\ logged.num % 4 = 3

====
